---- MODULE Spec2Model ----
(***************************************************************************)
(* PTools (src/main.py): the document formatter pretty_print_html with its *)
(* markup token extractor, the article-list card injector of main(), and   *)
(* the thread-pool fan-out of process_file.                                *)
(*                                                                         *)
(* Strings are sequences of one-character strings.  An element of the lxml *)
(* tree is a record [tag, class, text, tail, kids]; None and "" are both   *)
(* the empty sequence (the code only ever tests them for truthiness).  An  *)
(* HTML string is a sequence of items: a character, a start tag, an end    *)
(* tag, a doctype declaration or a comment.                                *)
(***************************************************************************)
EXTENDS Integers, Sequences, FiniteSets, TLC

(***************************************************************************)
(* Strings                                                                 *)
(***************************************************************************)
Pct == "%"
Spc == " "
Nl == "\n"

\* s[i..] starts with p
IsPrefixAt(s, p, i) ==
    /\ i >= 1
    /\ i + Len(p) - 1 <= Len(s)
    /\ \A k \in 1..Len(p) : s[i + k - 1] = p[k]

\* Python's `p in s`
Contains(s, p) == \E i \in 1..(Len(s) + 1) : IsPrefixAt(s, p, i)

\* Python's s.find(p) + 1: the first position of p in s, 0 when absent
FindFirst(s, p) ==
    IF Contains(s, p)
    THEN CHOOSE i \in 1..(Len(s) + 1) :
            /\ IsPrefixAt(s, p, i)
            /\ \A j \in 1..(i - 1) : ~IsPrefixAt(s, p, j)
    ELSE 0

IsSpace(c) == c \in {Spc, Nl}

\* Python's str.strip()
RECURSIVE LStrip(_)
LStrip(s) == IF s # <<>> /\ IsSpace(Head(s)) THEN LStrip(Tail(s)) ELSE s

RECURSIVE RStrip(_)
RStrip(s) ==
    IF s # <<>> /\ IsSpace(s[Len(s)]) THEN RStrip(SubSeq(s, 1, Len(s) - 1)) ELSE s

Strip(s) == RStrip(LStrip(s))

\* Python's s.split(sep) for a one-character separator: never empty
RECURSIVE SplitOn(_, _)
SplitOn(s, sep) ==
    LET i == FindFirst(s, <<sep>>)
    IN  IF i = 0 THEN <<s>>
        ELSE <<SubSeq(s, 1, i - 1)>> \o SplitOn(SubSeq(s, i + 1, Len(s)), sep)

\* Python's " ".join(parts)
RECURSIVE JoinSpace(_)
JoinSpace(parts) ==
    IF parts = <<>> THEN <<>>
    ELSE IF Len(parts) = 1 THEN parts[1]
    ELSE parts[1] \o <<Spc>> \o JoinSpace(Tail(parts))

RECURSIVE SelectNonEmpty(_)
SelectNonEmpty(ss) ==
    IF ss = <<>> THEN <<>>
    ELSE IF Head(ss) = <<>> THEN SelectNonEmpty(Tail(ss))
    ELSE <<Head(ss)>> \o SelectNonEmpty(Tail(ss))

StripEach(ss) == [i \in 1..Len(ss) |-> Strip(ss[i])]

(***************************************************************************)
(* pretty_print_html.process_text                                          *)
(***************************************************************************)
VerbatimTags == {"pre", "code"}

\* the literal head of the pattern r"%%c:([^%]+)%%"
TokenOpen == <<Pct, Pct, "c", ":">>
TokenClose == <<Pct, Pct>>

\* the end of the longest run of characters other than % that starts at k
\* (k - 1 when s[k] is a % or lies past the end): the greedy [^%]+
RECURSIVE RunEnd(_, _)
RunEnd(s, k) == IF k <= Len(s) /\ s[k] # Pct THEN RunEnd(s, k + 1) ELSE k - 1

\* the last position of a match of the pattern that starts at i, 0 for none
MatchEndAt(s, i) ==
    IF ~IsPrefixAt(s, TokenOpen, i) THEN 0
    ELSE LET j == RunEnd(s, i + 4)
         IN  IF j >= i + 4 /\ IsPrefixAt(s, TokenClose, j + 1) THEN j + 2 ELSE 0

\* re.search(pattern, text): the leftmost match, [start, end, group], start = 0
\* for no match
ReSearch(s) ==
    IF \E i \in 1..Len(s) : MatchEndAt(s, i) # 0
    THEN LET i == CHOOSE i \in 1..Len(s) :
                    /\ MatchEndAt(s, i) # 0
                    /\ \A j \in 1..(i - 1) : MatchEndAt(s, j) = 0
             e == MatchEndAt(s, i)
         IN  [start |-> i, end |-> e, group |-> SubSeq(s, i + 4, e - 2)]
    ELSE [start |-> 0, end |-> 0, group |-> <<>>]

\* re.sub(pattern, "", text): every match removed
RECURSIVE ReSubAll(_)
ReSubAll(s) ==
    LET m == ReSearch(s)
    IN  IF m.start = 0 THEN s
        ELSE SubSeq(s, 1, m.start - 1) \o ReSubAll(SubSeq(s, m.end + 1, Len(s)))

\* re.sub(pattern, "", text, count=1)
ReSubFirst(s) ==
    LET m == ReSearch(s)
    IN  IF m.start = 0 THEN s
        ELSE SubSeq(s, 1, m.start - 1) \o SubSeq(s, m.end + 1, Len(s))

\* classes = [c.strip() for c in class_str.split(",") if c.strip()]
TokenClasses(group) == SelectNonEmpty(StripEach(SplitOn(Strip(group), ",")))

\* owner.set("class", ...): the class attribute after the merge
MergeClass(existing, classes) ==
    IF classes = <<>> THEN existing
    ELSE IF existing # <<>> THEN existing \o <<Spc>> \o JoinSpace(classes)
    ELSE JoinSpace(classes)

\* process_text(text, owner) for an owner that is not None: the returned text
\* and the owner's class attribute afterwards
ProcessText(text, ownerTag, ownerClass) ==
    IF ownerTag \in VerbatimTags THEN [text |-> text, class |-> ownerClass]
    ELSE LET m == ReSearch(text)
         IN  IF m.start # 0
             THEN [text |-> ReSubFirst(text),
                   class |-> MergeClass(ownerClass, TokenClasses(m.group))]
             ELSE [text |-> text, class |-> ownerClass]

(***************************************************************************)
(* The element tree                                                        *)
(***************************************************************************)
Element(tag, class, text, tail, kids) ==
    [tag |-> tag, class |-> class, text |-> text, tail |-> tail, kids |-> kids]

\* a comment node: no tag name, no attributes, no children
CommentTag == "#comment"

\* _hasNonWhitespaceText / _hasNonWhitespaceTail of etree.indent
HasNonWhitespace(s) == \E i \in 1..Len(s) : ~IsSpace(s[i])

RECURSIVE Spaces(_)
Spaces(n) == IF n <= 0 THEN <<>> ELSE <<Spc>> \o Spaces(n - 1)

\* the width of space="    "
IndentWidth == 4

\* indentations[level] of etree.indent: a newline and level * space
IndentStr(level) == <<Nl>> \o Spaces(IndentWidth * level)

\* _indent_children(c_node, level, ...)
RECURSIVE IndentChildren(_, _)
IndentChildren(node, level) ==
    LET n == Len(node.kids)
        kid(i) ==
            LET c == node.kids[i]
                c1 == IF c.kids # <<>> THEN IndentChildren(c, level + 1) ELSE c
            IN  IF HasNonWhitespace(c.tail) THEN c1
                ELSE [c1 EXCEPT !.tail =
                        IF i = n THEN IndentStr(level - 1) ELSE IndentStr(level)]
    IN  [node EXCEPT
            !.text = IF HasNonWhitespace(node.text) THEN node.text
                     ELSE IndentStr(level),
            !.kids = [i \in 1..n |-> kid(i)]]

\* etree.indent(root, space="    ")
Indent(root) == IF root.kids # <<>> THEN IndentChildren(root, 1) ELSE root

\* lines 86-89 on one element and, recursively, on the elements below it
RECURSIVE AdjustElement(_)
AdjustElement(node) ==
    LET hit == node.tag = "pre" /\ node.kids # <<>> /\ node.kids[1].tag = "code"
        kid(i) ==
            LET c == AdjustElement(node.kids[i])
            IN  IF hit /\ i = 1 THEN [c EXCEPT !.tail = <<Nl>>] ELSE c
    IN  [node EXCEPT
            !.text = IF hit THEN <<>> ELSE node.text,
            !.kids = [i \in 1..Len(node.kids) |-> kid(i)]]

\* for pre in root.xpath(".//pre"): the descendants of root, never root itself
AdjustPre(root) ==
    [root EXCEPT !.kids = [i \in 1..Len(root.kids) |-> AdjustElement(root.kids[i])]]

(***************************************************************************)
(* pretty_print_html.process_markup                                        *)
(***************************************************************************)
\* process_markup(element, skip) with element.getparent() an element of tag
\* ownerTag and class ownerClass (hasParent = FALSE: getparent() is None).
\* The result is the element afterwards and its parent's class afterwards.
RECURSIVE ProcessMarkup(_, _, _, _, _)
RECURSIVE ProcessChildren(_, _, _, _, _)

\* for child in element: process_markup(child, skip=child_skip); acc holds the
\* children done so far and class is the element's class so far
ProcessChildren(kids, i, childSkip, tag, acc) ==
    IF i > Len(kids) THEN acc
    ELSE LET r == ProcessMarkup(kids[i], childSkip, tag, acc.class, TRUE)
         IN  ProcessChildren(kids, i + 1, childSkip, tag,
                             [kids |-> Append(acc.kids, r.node), class |-> r.pclass])

ProcessMarkup(element, skip, ownerTag, ownerClass, hasParent) ==
    LET doText == ~skip /\ element.text # <<>> /\ Contains(element.text, TokenClose)
        t == IF doText THEN ProcessText(element.text, element.tag, element.class)
             ELSE [text |-> element.text, class |-> element.class]
        childSkip == skip \/ element.tag \in VerbatimTags
        ch == ProcessChildren(element.kids, 1, childSkip, element.tag,
                              [kids |-> <<>>, class |-> t.class])
        doTail == element.tail # <<>> /\ Contains(element.tail, TokenClose) /\ hasParent
        l == IF doTail THEN ProcessText(element.tail, ownerTag, ownerClass)
             ELSE [text |-> element.tail, class |-> ownerClass]
    IN  [node |-> [element EXCEPT !.text = t.text, !.class = ch.class,
                                  !.kids = ch.kids, !.tail = l.text],
         pclass |-> l.class]

\* process_markup(root): the document root has no parent
ProcessMarkupRoot(root) == ProcessMarkup(root, FALSE, "", <<>>, FALSE).node

(***************************************************************************)
(* HTML strings: the serializer and the parser of lxml, as far as the code *)
(* relies on them.  The documents considered are well formed, hold no text *)
(* but white space outside their elements, and no head.                     *)
(***************************************************************************)
Item(k, c, tag, class) == [k |-> k, c |-> c, tag |-> tag, class |-> class]
Ch(c) == Item("ch", c, "", <<>>)
OpenTag(tag, class) == Item("open", "", tag, class)
CloseTag(tag) == Item("close", "", tag, <<>>)
DoctypeItem == Item("doctype", "", "", <<>>)
CommentItem == Item("comment", "", "", <<>>)

\* the characters of a string as items
Chars(s) == [i \in 1..Len(s) |-> Ch(s[i])]

\* etree.tostring(element, encoding="unicode", method="html"): the element,
\* its content and its tail
RECURSIVE Serialize(_)
RECURSIVE SerializeAll(_)
SerializeAll(nodes) ==
    IF nodes = <<>> THEN <<>> ELSE Serialize(Head(nodes)) \o SerializeAll(Tail(nodes))

Serialize(node) ==
    IF node.tag = CommentTag THEN <<CommentItem>> \o Chars(node.tail)
    ELSE <<OpenTag(node.tag, node.class)>> \o Chars(node.text)
            \o SerializeAll(node.kids)
            \o <<CloseTag(node.tag)>> \o Chars(node.tail)

\* the last index of the run of characters that starts at i (i - 1 for none)
RECURSIVE TextRunEnd(_, _)
TextRunEnd(s, i) ==
    IF i <= Len(s) /\ s[i].k = "ch" THEN TextRunEnd(s, i + 1) ELSE i - 1

\* the characters s[i..j] as a string
TextOf(s, i, j) == [n \in 1..(j - i + 1) |-> s[i + n - 1].c]

\* the parser on the nodes that start at s[i], up to an end tag or the end of
\* the string: [kids, next].  A doctype declaration after the start of the
\* document is dropped, and so is white space outside the elements.
RECURSIVE ParseNodes(_, _)
ParseNodes(s, i) ==
    IF i > Len(s) \/ s[i].k = "close" THEN [kids |-> <<>>, next |-> i]
    ELSE IF s[i].k = "open"
    THEN LET te == TextRunEnd(s, i + 1)
             inner == ParseNodes(s, te + 1)
             le == TextRunEnd(s, inner.next + 1)
             node == Element(s[i].tag, s[i].class, TextOf(s, i + 1, te),
                             TextOf(s, inner.next + 1, le), inner.kids)
             rest == ParseNodes(s, le + 1)
         IN  [kids |-> <<node>> \o rest.kids, next |-> rest.next]
    ELSE IF s[i].k = "comment"
    THEN LET le == TextRunEnd(s, i + 1)
             node == Element(CommentTag, <<>>, <<>>, TextOf(s, i + 1, le), <<>>)
             rest == ParseNodes(s, le + 1)
         IN  [kids |-> <<node>> \o rest.kids, next |-> rest.next]
    ELSE ParseNodes(s, i + 1)

\* the elements a list of top-level nodes puts into the body: an html element
\* stands for the content of its body
RECURSIVE BodyLevel(_)
BodyLevel(nodes) ==
    IF nodes = <<>> THEN <<>>
    ELSE LET n == Head(nodes)
         IN  (IF n.tag = "html"
              THEN (IF n.kids # <<>> THEN n.kids[1].kids ELSE <<>>)
              ELSE <<n>>) \o BodyLevel(Tail(nodes))

HasElement(s) == \E i \in 1..Len(s) : s[i].k = "open"

\* the class attribute of the body start tag of a document string, if any
BodyClass(nodes) ==
    IF nodes # <<>> /\ nodes[1].tag = "html" /\ nodes[1].kids # <<>>
    THEN nodes[1].kids[1].class ELSE <<>>

HtmlClass(nodes) ==
    IF nodes # <<>> /\ nodes[1].tag = "html" THEN nodes[1].class ELSE <<>>

\* html2.document_fromstring(s) for a string that holds an element: the html
\* root, with html and body supplied when the string has none
DocumentFromString(s) ==
    LET nodes == ParseNodes(s, 1).kids
        body == Element("body", BodyClass(nodes), <<>>, <<>>, BodyLevel(nodes))
    IN  Element("html", HtmlClass(nodes), <<>>, <<>>, <<body>>)

\* lxml raises ParserError("Document is empty") when the string holds no element
DocumentIsEmpty(s) == ~HasElement(s)

\* _looks_like_full_html_unicode: r"^\s*<(?:html|!doctype)"
LooksLikeFullHtml(s) ==
    \E i \in 1..Len(s) :
        /\ \A j \in 1..(i - 1) : s[j].k = "ch" /\ IsSpace(s[j].c)
        /\ \/ s[i].k = "doctype"
           \/ s[i].k = "open" /\ s[i].tag = "html"

\* html2.fragments_fromstring(s) raises when s looks like a full document and
\* document_fromstring finds it empty; otherwise s is parsed inside
\* <html><body>...</body></html>, which never is
FragmentsRaise(s) == LooksLikeFullHtml(s) /\ DocumentIsEmpty(s)

\* html2.fragments_fromstring(s): the children of the body (the documents hold
\* no leading text); each keeps the body as its parent
FragmentsFromString(s) == DocumentFromString(s).kids[1].kids

(***************************************************************************)
(* pretty_print_html as pure functions of its argument                     *)
(***************************************************************************)
\* re.search(r"(<!DOCTYPE[^>]*>)", html_str, re.IGNORECASE): the position of
\* the first doctype declaration, 0 for none
DoctypeAt(h) ==
    IF \E i \in 1..Len(h) : h[i].k = "doctype"
    THEN CHOOSE i \in 1..Len(h) :
            h[i].k = "doctype" /\ \A j \in 1..(i - 1) : h[j].k # "doctype"
    ELSE 0

\* lines 69-76
DoctypeOf(h) == IF DoctypeAt(h) # 0 THEN <<DoctypeItem>> ELSE <<>>
BeforeDoctype(h) == IF DoctypeAt(h) # 0 THEN SubSeq(h, 1, DoctypeAt(h) - 1) ELSE <<>>
AfterDoctype(h) == IF DoctypeAt(h) # 0 THEN SubSeq(h, DoctypeAt(h) + 1, Len(h)) ELSE h

\* line 98
Assemble(before, doctype, root) == before \o doctype \o <<Ch(Nl)>> \o Serialize(root)

\* lines 80-98 when nothing raises
PrimaryResult(h) ==
    Assemble(BeforeDoctype(h), DoctypeOf(h),
             ProcessMarkupRoot(AdjustPre(Indent(DocumentFromString(AfterDoctype(h))))))

\* lines 110-124 for one element fragment, whose parent is the body
FormatFragment(frag) ==
    Serialize(ProcessMarkup(AdjustPre(Indent(frag)), FALSE, "body", <<>>, TRUE).node)

RECURSIVE FormatFragments(_)
FormatFragments(frags) ==
    IF frags = <<>> THEN <<>>
    ELSE FormatFragment(Head(frags)) \o FormatFragments(Tail(frags))

\* lines 104-125 when nothing raises
FragmentResult(h) == FormatFragments(FragmentsFromString(h))

\* line 104: the string the fallback parses
FallbackSourceAfter(h, after) == after
FallbackSource(h, after) == h

(***************************************************************************)
(* The documents handed to the formatter                                   *)
(***************************************************************************)
\* the most annotation tokens generated into one text
MaxTokens == 2
\* the most applications of pretty_print_html to its own output
MaxRounds == 2

MkToken(body) == TokenOpen \o body \o TokenClose

\* token bodies: one class; two entries, one of them blank, with white space
\* to trim; no class at all
TokenBodies == {<<"x">>, <<Spc, "y", ",", Spc>>, <<",">>}

RECURSIVE TokenRuns(_)
TokenRuns(n) ==
    IF n = 0 THEN {<<>>}
    ELSE TokenRuns(n - 1) \cup
            {r \o MkToken(b) : r \in {q \in TokenRuns(n - 1) : Len(q) > 0 \/ n = 1},
                               b \in TokenBodies}

Words == {<<>>, <<"a">>}

\* texts with up to MaxTokens annotation tokens
RichTexts == {w1 \o r \o w2 : w1 \in Words, r \in TokenRuns(MaxTokens), w2 \in Words}
\* texts with at most one
PoorTexts == {<<>>, MkToken(<<"z">>)}

InnerElements == {Element("b", <<>>, x, l, <<>>) : x \in PoorTexts, l \in PoorTexts}

MidElements(tags, tails) ==
    {Element(t, <<>>, x, l, k) :
        t \in tags, x \in PoorTexts, l \in tails,
        k \in {<<>>} \cup {<<i>> : i \in InnerElements}}

OuterElements(tags, classes, texts, mids) ==
    {Element(t, c, x, <<>>, k) :
        t \in tags, c \in classes, x \in texts,
        k \in {<<>>} \cup {<<m>> : m \in mids}}

\* the body-level elements of the documents of SpecMarkup
MarkupElements ==
    OuterElements({"p", "pre"}, {<<"k">>}, RichTexts,
                  MidElements({"span", "code"}, PoorTexts))
    \cup OuterElements({"p"}, {<<>>, <<"k">>}, PoorTexts,
                       MidElements({"span"}, RichTexts))

\* the body-level elements of the documents of Spec
FormatTexts == {w \o r : w \in Words, r \in TokenRuns(MaxTokens)}

FormatElements ==
    OuterElements({"p", "pre"}, {<<>>, <<"k">>}, FormatTexts,
                  {Element("code", <<>>, x, <<>>, <<>>) : x \in PoorTexts})

\* what precedes the content: nothing, a doctype, a comment and a doctype
Prefixes == {<<>>, <<DoctypeItem>>, <<CommentItem, DoctypeItem>>}

FormatDocuments ==
    {pre \o body : pre \in Prefixes,
                   body \in {<<>>} \cup {Serialize(e) : e \in FormatElements}}

MarkupDocuments == {Serialize(e) : e \in MarkupElements}

(***************************************************************************)
(* Positions in a tree                                                     *)
(***************************************************************************)
\* the paths (child indices from the root) of the nodes of a tree
RECURSIVE PathsOf(_)
PathsOf(node) ==
    {<<>>} \cup UNION {{<<i>> \o q : q \in PathsOf(node.kids[i])} :
                        i \in 1..Len(node.kids)}

RECURSIVE NodeAt(_, _)
NodeAt(node, path) ==
    IF path = <<>> THEN node ELSE NodeAt(node.kids[path[1]], Tail(path))

\* the node at path is a pre or code element or lies below one
InVerbatim(tree, path) ==
    \E n \in 0..Len(path) : NodeAt(tree, SubSeq(path, 1, n)).tag \in VerbatimTags

\* the node at path lies below a pre or code element
BelowVerbatim(tree, path) ==
    \E n \in 0..(Len(path) - 1) :
        NodeAt(tree, SubSeq(path, 1, n)).tag \in VerbatimTags

\* s[i..j] is an annotation token %%c:<one or more characters other than %>%%
IsTokenAt(s, i, j) ==
    /\ 1 <= i /\ j <= Len(s) /\ j >= i + 6
    /\ s[i] = Pct /\ s[i + 1] = Pct /\ s[i + 2] = "c" /\ s[i + 3] = ":"
    /\ s[j - 1] = Pct /\ s[j] = Pct
    /\ \A k \in (i + 4)..(j - 2) : s[k] # Pct

TokenSpans(s) ==
    UNION {{<<i, j>> : j \in {j \in (i + 6)..Len(s) : IsTokenAt(s, i, j)}} :
            i \in {i \in 1..Len(s) : s[i] = Pct}}

HoldsToken(s) == TokenSpans(s) # {}

\* the span of the first token of a string that holds one
FirstSpan(s) ==
    CHOOSE sp \in TokenSpans(s) : \A o \in TokenSpans(s) : sp[1] <= o[1]

\* the string without its first token, every other character in place
WithoutFirstToken(s) ==
    IF HoldsToken(s)
    THEN SubSeq(s, 1, FirstSpan(s)[1] - 1) \o SubSeq(s, FirstSpan(s)[2] + 1, Len(s))
    ELSE s

\* the classes the first token of s names: its comma-separated entries,
\* trimmed, the empty ones dropped, in order
FirstTokenClassList(s) ==
    LET sp == FirstSpan(s)
        body == SubSeq(s, sp[1] + 4, sp[2] - 2)
        cuts == {0, Len(body) + 1} \cup {i \in 1..Len(body) : body[i] = ","}
        starts == {c \in cuts : c <= Len(body)}
        nextCut(c) == CHOOSE d \in cuts : d > c /\ \A e \in cuts : e > c => d <= e
        entry(c) == SubSeq(body, c + 1, nextCut(c) - 1)
        trimmed(e) ==
            LET ink == {i \in 1..Len(e) : ~IsSpace(e[i])}
            IN  IF ink = {} THEN <<>>
                ELSE SubSeq(e, CHOOSE i \in ink : \A j \in ink : i <= j,
                               CHOOSE i \in ink : \A j \in ink : i >= j)
        kept == {c \in starts : trimmed(entry(c)) # <<>>}
        RECURSIVE InOrder(_)
        InOrder(S) ==
            IF S = {} THEN <<>>
            ELSE LET c == CHOOSE x \in S : \A y \in S : x <= y
                 IN  <<trimmed(entry(c))>> \o InOrder(S \ {c})
    IN  InOrder(kept)

\* a class attribute followed by more classes, space-separated
RECURSIVE ClassesAppended(_, _)
ClassesAppended(attr, classes) ==
    IF classes = <<>> THEN attr
    ELSE ClassesAppended(IF attr = <<>> THEN Head(classes)
                         ELSE attr \o <<Spc>> \o Head(classes), Tail(classes))

\* the class attribute after the first token of s, if any, was applied
AfterToken(attr, s) ==
    IF HoldsToken(s) THEN ClassesAppended(attr, FirstTokenClassList(s)) ELSE attr

\* the class attribute of an element outside the verbatim regions after one
\* extractor pass: the token of its text first, then those of the tails of
\* its children, in order
RECURSIVE AfterTails(_, _, _)
AfterTails(attr, kids, i) ==
    IF i > Len(kids) THEN attr
    ELSE AfterTails(AfterToken(attr, kids[i].tail), kids, i + 1)

ExpectedClass(node) == AfterTails(AfterToken(node.class, node.text), node.kids, 1)

(***************************************************************************)
(* pretty_print_html as one function, for its callers                      *)
(***************************************************************************)
\* lines 67-128 when only the parser raises
PrettyPrintHtml(h) ==
    IF ~DocumentIsEmpty(AfterDoctype(h)) THEN PrimaryResult(h)
    ELSE IF ~FragmentsRaise(h) THEN FragmentResult(h)
    ELSE h

(***************************************************************************)
(* main: the article list update (lines 307-447)                           *)
(***************************************************************************)
\* the most articles collected
MaxCards == 2

PlaceholderToken == <<Pct, Pct, "c", "a", "r", "d", Pct, Pct>>
CardWord == <<"c", "a", "r", "d">>

\* the titles of the articles, sorted (line 329)
Titles == <<"A", "B", "C", "D", "E", "F">>

\* line 336, parsed: <div class="card"><a href=...>title</a></div>
Card(i, tail) ==
    Element("div", CardWord, <<>>, tail,
            <<Element("a", <<>>, <<Titles[i]>>, <<>>, <<>>)>>)

\* html2.fragments_fromstring(card_html) of lines 364 and 403: the cards, each
\* but the last followed by the newline that joins them (line 338)
CardFragments(n) == [i \in 1..n |-> Card(i, IF i < n THEN <<Nl>> ELSE <<>>)]

\* line 350: //div[contains(@class, "card")]
IsCardDiv(node) == node.tag = "div" /\ Contains(node.class, CardWord)

\* lines 350-354: every match is removed from its parent, its tail with it
RECURSIVE PurgeBelow(_)
RECURSIVE PurgeKids(_)
PurgeKids(kids) ==
    IF kids = <<>> THEN <<>>
    ELSE IF IsCardDiv(Head(kids)) THEN PurgeKids(Tail(kids))
    ELSE <<PurgeBelow(Head(kids))>> \o PurgeKids(Tail(kids))

PurgeBelow(node) == [node EXCEPT !.kids = PurgeKids(node.kids)]

\* tree.iter(): the paths of the elements in the order they are yielded
RECURSIVE PreOrder(_)
RECURSIVE PreOrderKids(_, _)
PreOrderKids(kids, i) ==
    IF i > Len(kids) THEN <<>>
    ELSE LET sub == PreOrder(kids[i])
         IN  [j \in 1..Len(sub) |-> <<i>> \o sub[j]] \o PreOrderKids(kids, i + 1)

PreOrder(node) == <<<<>>>> \o PreOrderKids(node.kids, 1)

RECURSIVE ReplaceAt(_, _, _)
ReplaceAt(node, path, new) ==
    IF path = <<>> THEN new
    ELSE [node EXCEPT !.kids[path[1]] = ReplaceAt(node.kids[path[1]], Tail(path), new)]

HasPlaceholder(s) == Contains(s, PlaceholderToken)

\* before, after = s.split("%%card%%", 1)
BeforePlaceholder(s) == SubSeq(s, 1, FindFirst(s, PlaceholderToken) - 1)
AfterPlaceholder(s) ==
    SubSeq(s, FindFirst(s, PlaceholderToken) + Len(PlaceholderToken), Len(s))

\* lines 376-388 and 414-423: after, when not empty, goes in front of the tail
\* of the last card
AttachAfter(cards, after) ==
    IF after # <<>> /\ cards # <<>>
    THEN [cards EXCEPT ![Len(cards)].tail = after \o @]
    ELSE cards

\* lines 366-375: element.insert(pos, frag) for pos = 0, 1, ...
InsertAtEnd(cards, kids) == kids \o cards
InsertAtFront(cards, kids) == cards \o kids

\* lines 361-391: the element whose text holds the placeholder, afterwards
TextSplice(element, cards) ==
    LET before == BeforePlaceholder(element.text)
        after == AfterPlaceholder(element.text)
    IN  [element EXCEPT
            !.text = before,
            !.kids = InsertAtFront(AttachAfter(cards, after), element.kids),
            !.tail = IF after # <<>> /\ cards = <<>> THEN after ELSE element.tail]

\* lines 400-427: the parent of the element (its child idx) whose tail holds
\* the placeholder, afterwards
TailSplice(parent, idx, cards) ==
    LET element == parent.kids[idx]
        before == BeforePlaceholder(element.tail)
        after == AfterPlaceholder(element.tail)
    IN  [parent EXCEPT
            !.kids = SubSeq(parent.kids, 1, idx - 1)
                        \o <<[element EXCEPT !.tail = before]>>
                        \o AttachAfter(cards, after)
                        \o SubSeq(parent.kids, idx + 1, Len(parent.kids))]

\* line 434: return 1
AfterNotFoundFallsThrough == "write"
AfterNotFound == "exit"

(***************************************************************************)
(* The article list documents                                              *)
(***************************************************************************)
PlainPlaceholder == <<"s">> \o PlaceholderToken \o <<"e">>

PoorPlaceholderTexts == {<<>>, <<"t">>, PlaceholderToken, PlainPlaceholder}
RichPlaceholderTexts ==
    {<<>>, PlaceholderToken, PlainPlaceholder, PlainPlaceholder \o PlaceholderToken}

\* class attributes: none, a card, not a card though "card" is in it, a card
\* with a second class
CardClasses ==
    {<<>>, CardWord, <<"d", "i", "s">> \o CardWord, <<"x", Spc>> \o CardWord}

\* a sibling that follows
Follower == Element("p", <<>>, <<"b">>, <<>>, <<>>)

ListBody(first) == {<<first>>, <<first, Follower>>}

\* documents that differ in where the placeholder stands
PlaceholderElements ==
    {Element("div", <<>>, x, l, k) :
        x \in RichPlaceholderTexts, l \in PoorPlaceholderTexts,
        k \in {<<>>} \cup
              {<<Element("span", <<>>, kx, kl, <<>>)>> :
                    kx \in PoorPlaceholderTexts, kl \in PoorPlaceholderTexts}}

\* documents that differ in the classes of their elements
StaleElements ==
    {Element("div", c, x, l, k) :
        c \in CardClasses \ {<<"x", Spc>> \o CardWord},
        x \in {<<>>, PlaceholderToken}, l \in {<<>>, PlaceholderToken},
        k \in {<<>>} \cup
              {<<Element(kt, kc, kx, kl, <<>>)>> :
                    kt \in {"div", "span"}, kc \in CardClasses,
                    kx \in {<<>>, PlaceholderToken}, kl \in {<<>>, <<"t">>}}}

\* the article list files: an empty file, or a body of one element and
\* perhaps a second
ListDocuments ==
    {<<>>} \cup
    {SerializeAll(b) : b \in UNION {ListBody(e) : e \in PlaceholderElements \cup StaleElements}}

(***************************************************************************)
(* process_file (lines 131-170) and the conversion batch (lines 249-267)   *)
(***************************************************************************)
\* ThreadPoolExecutor(max_workers=4)
NumWorkers == 4

MaxInputs == 3

\* Python's s.replace(old, new), on strings and on page contents alike
RECURSIVE Replace(_, _, _)
Replace(s, old, new) ==
    LET i == FindFirst(s, old)
    IN  IF i = 0 THEN s
        ELSE SubSeq(s, 1, i - 1) \o new
                \o Replace(SubSeq(s, i + Len(old), Len(s)), old, new)

\* an input path: its directory and its base name
Path(dir, name) == [dir |-> dir, name |-> name]

\* os.path.basename(path)
Basename(path) == path.name

\* os.path.join(output_dir, os.path.basename(path).replace(".md", ".html")),
\* as the name within the one output directory
OutputPath(path) ==
    Replace(Basename(path), <<".", "m", "d">>, <<".", "h", "t", "m", "l">>)

\* md.render(content): a heading line becomes h1, any other line a paragraph
Render(content) ==
    IF IsPrefixAt(content, <<"#", Spc>>, 1)
    THEN <<OpenTag("h1", <<>>)>> \o Chars(SubSeq(content, 3, Len(content)))
            \o <<CloseTag("h1"), Ch(Nl)>>
    ELSE <<OpenTag("p", <<>>)>> \o Chars(content) \o <<CloseTag("p"), Ch(Nl)>>

TitleToken == <<Pct, Pct, "t", "i", "t", "l", "e", Pct, Pct>>
ContentToken == <<Pct, Pct, "c", "o", "n", "t", "e", "n", "t", Pct, Pct>>
Untitled == <<"U", "n", "t", "i", "t", "l", "e", "d">>

\* html2.fromstring(html).xpath(".//h1"), text_content() of the first, else
\* "Untitled"
TitleOf(html) ==
    LET at == {i \in 1..Len(html) : html[i].k = "open" /\ html[i].tag = "h1"}
    IN  IF at = {} THEN Untitled
        ELSE LET i == CHOOSE j \in at : \A k \in at : j <= k
             IN  TextOf(html, i + 1, TextRunEnd(html, i + 1))

\* lines 147-152: the page the template gives, the html itself without one
FillTemplate(template, html) ==
    IF template = <<>> THEN html
    ELSE Replace(Replace(template, Chars(TitleToken), Chars(TitleOf(html))),
                 Chars(ContentToken), html)

\* lines 140-152: the raw page of one input
RawPage(template, content) == FillTemplate(template, Render(content))

\* the statements of process_file that hold a worker
Running == {"read", "write_raw", "read_back", "write_pretty"}

\* the result tuple of process_file, without the error text
Result(success, path) ==
    [success |-> success, path |-> path,
     out_path |-> IF success THEN OutputPath(path) ELSE <<>>]

(***************************************************************************)
(* The batches the model runs                                              *)
(***************************************************************************)
NameA == <<"a", ".", "m", "d">>
NameB == <<"b", ".", "m", "d">>

AllPaths == {Path("d1", NameA), Path("d2", NameA), Path("d1", NameB)}

\* what the input file holds
InputContent(path) ==
    IF path.dir = "d1" THEN <<"#", Spc, path.name[1]>> ELSE <<path.name[1], "2">>

Templates ==
    {<<>>,
     <<OpenTag("div", <<>>)>> \o Chars(TitleToken) \o <<CloseTag("div")>>
        \o Chars(ContentToken)}

OutputPaths == {OutputPath(p) : p \in AllPaths}

Batches == {b \in SUBSET AllPaths : b # {} /\ Cardinality(b) <= MaxInputs}

(***************************************************************************)
(* State                                                                   *)
(***************************************************************************)
VARIABLES
    \* pretty_print_html
    html_str,          \* the argument
    pc,                \* the statement pretty_print_html is at
    doctype, before_doctype, after_doctype,
    root,              \* the tree being formatted
    marked_in,         \* the tree as process_markup(root) received it
    result,            \* the returned string
    primary_raised,    \* the except clause of line 100 was entered
    fragment_tried,    \* line 104 was reached
    fragment_raised,   \* the except clause of line 126 was entered
    history,           \* the finished calls: [arg, result, path]
    \* main: the article list update
    list_file,         \* the content of the article list file on disk
    list_writes,       \* how often the article list file was written
    n_articles,        \* len(articles)
    tree,              \* the parsed article list
    tree_scan,         \* the tree as the placeholder scan received it
    ipc,               \* the statement the update is at
    it,                \* how many elements tree.iter() has yielded
    scan,              \* Scanning, FoundText, FoundTail or Exhausted
    exit_status,       \* the return statement that ended the update
    \* main: the conversion batch
    vinput_paths,      \* the valid input paths
    template_content,  \* the template, empty when there is none
    format_all,
    tpc,               \* per input path: the statement its process_file is at
    local_html,        \* per input path: the locals html / raw_html
    files,             \* the content of each file of the output directory
    reported,          \* the results main has taken from as_completed
    success_count, fail_count

fmtVars == <<html_str, pc, doctype, before_doctype, after_doctype, root,
             marked_in, result, primary_raised, fragment_tried, fragment_raised,
             history>>

injVars == <<list_file, list_writes, n_articles, tree, tree_scan, ipc, it, scan,
             exit_status>>

poolVars == <<vinput_paths, template_content, format_all, tpc, local_html, files, reported,
              success_count, fail_count>>

vars == <<fmtVars, injVars, poolVars>>

NoTree == Element("", <<>>, <<>>, <<>>, <<>>)

EnterFormatter(h) ==
    /\ html_str = h
    /\ pc = "start"
    /\ doctype = <<>>
    /\ before_doctype = <<>>
    /\ after_doctype = <<>>
    /\ root = NoTree
    /\ marked_in = NoTree
    /\ result = <<>>
    /\ primary_raised = FALSE
    /\ fragment_tried = FALSE
    /\ fragment_raised = FALSE

\* no call of pretty_print_html is under way
FormatterIdle ==
    /\ html_str = <<>>
    /\ pc = "idle"
    /\ doctype = <<>>
    /\ before_doctype = <<>>
    /\ after_doctype = <<>>
    /\ root = NoTree
    /\ marked_in = NoTree
    /\ result = <<>>
    /\ primary_raised = FALSE
    /\ fragment_tried = FALSE
    /\ fragment_raised = FALSE
    /\ history = <<>>

\* the article list update has not begun
InjectorIdle ==
    /\ list_file = <<>>
    /\ list_writes = 0
    /\ n_articles = 0
    /\ tree = NoTree
    /\ tree_scan = NoTree
    /\ ipc = "idle"
    /\ it = 0
    /\ scan = "Scanning"
    /\ exit_status = "running"

\* no conversion batch is under way
PoolIdle ==
    /\ vinput_paths = {}
    /\ template_content = <<>>
    /\ format_all = FALSE
    /\ tpc = <<>>
    /\ local_html = <<>>
    /\ files = <<>>
    /\ reported = {}
    /\ success_count = 0
    /\ fail_count = 0

(***************************************************************************)
(* pretty_print_html, statement by statement                               *)
(***************************************************************************)
\* lines 68-76
SplitDoctype ==
    /\ pc = "start"
    /\ doctype' = DoctypeOf(html_str)
    /\ before_doctype' = BeforeDoctype(html_str)
    /\ after_doctype' = AfterDoctype(html_str)
    /\ pc' = "parse"
    /\ UNCHANGED <<injVars, poolVars>>
    /\ UNCHANGED <<html_str, root, marked_in, result, primary_raised,
                   fragment_tried, fragment_raised, history>>

\* line 80
ParseDocument ==
    /\ pc = "parse"
    /\ ~DocumentIsEmpty(after_doctype)
    /\ root' = DocumentFromString(after_doctype)
    /\ pc' = "indent"
    /\ UNCHANGED <<injVars, poolVars>>
    /\ UNCHANGED <<html_str, doctype, before_doctype, after_doctype, marked_in,
                   result, primary_raised, fragment_tried, fragment_raised, history>>

\* line 80 raising ParserError, caught at line 100
ParseDocumentRaises ==
    /\ pc = "parse"
    /\ DocumentIsEmpty(after_doctype)
    /\ primary_raised' = TRUE
    /\ pc' = "fallback"
    /\ UNCHANGED <<injVars, poolVars>>
    /\ UNCHANGED <<html_str, doctype, before_doctype, after_doctype, root,
                   marked_in, result, fragment_tried, fragment_raised, history>>

\* line 83
IndentTree ==
    /\ pc = "indent"
    /\ root' = Indent(root)
    /\ pc' = "adjust"
    /\ UNCHANGED <<injVars, poolVars>>
    /\ UNCHANGED <<html_str, doctype, before_doctype, after_doctype, marked_in,
                   result, primary_raised, fragment_tried, fragment_raised, history>>

\* lines 86-89
AdjustPreCode ==
    /\ pc = "adjust"
    /\ root' = AdjustPre(root)
    /\ pc' = "markup"
    /\ UNCHANGED <<injVars, poolVars>>
    /\ UNCHANGED <<html_str, doctype, before_doctype, after_doctype, marked_in,
                   result, primary_raised, fragment_tried, fragment_raised, history>>

\* line 92
ExtractMarkup ==
    /\ pc = "markup"
    /\ marked_in' = root
    /\ root' = ProcessMarkupRoot(root)
    /\ pc' = "serialize"
    /\ UNCHANGED <<injVars, poolVars>>
    /\ UNCHANGED <<html_str, doctype, before_doctype, after_doctype, result,
                   primary_raised, fragment_tried, fragment_raised, history>>

\* lines 95-98
SerializeAndReturn ==
    /\ pc = "serialize"
    /\ result' = Assemble(before_doctype, doctype, root)
    /\ pc' = "done"
    /\ UNCHANGED <<injVars, poolVars>>
    /\ history' = Append(history,
                         [arg |-> html_str, result |-> result', path |-> "primary"])
    /\ UNCHANGED <<html_str, doctype, before_doctype, after_doctype, root,
                   marked_in, primary_raised, fragment_tried, fragment_raised>>

\* lines 83-95 raising (a RecursionError of process_markup, a MemoryError, an
\* lxml error), caught at line 100; the tree of the failed attempt is dropped
PrimaryRaises ==
    /\ pc \in {"indent", "adjust", "markup", "serialize"}
    /\ primary_raised' = TRUE
    /\ pc' = "fallback"
    /\ UNCHANGED <<injVars, poolVars>>
    /\ root' = NoTree
    /\ marked_in' = NoTree
    /\ UNCHANGED <<html_str, doctype, before_doctype, after_doctype, result,
                   fragment_tried, fragment_raised, history>>

\* lines 104-125
FragmentMode ==
    /\ pc = "fallback"
    /\ ~FragmentsRaise(FallbackSource(html_str, after_doctype))
    /\ fragment_tried' = TRUE
    /\ result' = FragmentResult(FallbackSource(html_str, after_doctype))
    /\ pc' = "done"
    /\ UNCHANGED <<injVars, poolVars>>
    /\ history' = Append(history,
                         [arg |-> html_str, result |-> result', path |-> "fragment"])
    /\ UNCHANGED <<html_str, doctype, before_doctype, after_doctype, root,
                   marked_in, primary_raised, fragment_raised>>

\* lines 104-128: the fallback raising in its turn (ParserError of line 104, or
\* any exception of lines 116-124), caught at line 126
FragmentModeRaises ==
    /\ pc = "fallback"
    /\ fragment_tried' = TRUE
    /\ fragment_raised' = TRUE
    /\ result' = html_str
    /\ pc' = "done"
    /\ UNCHANGED <<injVars, poolVars>>
    /\ history' = Append(history,
                         [arg |-> html_str, result |-> result', path |-> "raw"])
    /\ UNCHANGED <<html_str, doctype, before_doctype, after_doctype, root,
                   marked_in, primary_raised>>

\* the caller formats the returned string again
Reapply ==
    /\ pc = "done"
    /\ Len(history) < MaxRounds
    /\ html_str' = result
    /\ pc' = "start"
    /\ UNCHANGED <<injVars, poolVars>>
    /\ doctype' = <<>>
    /\ before_doctype' = <<>>
    /\ after_doctype' = <<>>
    /\ root' = NoTree
    /\ marked_in' = NoTree
    /\ result' = <<>>
    /\ primary_raised' = FALSE
    /\ fragment_tried' = FALSE
    /\ fragment_raised' = FALSE
    /\ UNCHANGED history

(***************************************************************************)
(* main: the article list update, statement by statement                   *)
(***************************************************************************)
\* the element tree.iter() yields next
NextPath == PreOrder(tree)[it + 1]
NextElement == NodeAt(tree, NextPath)

\* lines 307-338: at least one article was read
CollectArticles ==
    /\ ipc = "collect"
    /\ n_articles > 0
    /\ ipc' = "read"
    /\ UNCHANGED <<list_file, list_writes, n_articles, tree, tree_scan, it, scan,
                   exit_status>>
    /\ UNCHANGED <<fmtVars, poolVars>>

\* lines 324-326
NoArticles ==
    /\ ipc = "collect"
    /\ n_articles = 0
    /\ exit_status' = "no_articles"
    /\ ipc' = "exit"
    /\ UNCHANGED <<list_file, list_writes, n_articles, tree, tree_scan, it, scan>>
    /\ UNCHANGED <<fmtVars, poolVars>>

\* lines 341-344
ReadList ==
    /\ ipc = "read"
    /\ ~DocumentIsEmpty(list_file)
    /\ tree' = DocumentFromString(list_file)
    /\ ipc' = "purge"
    /\ UNCHANGED <<list_file, list_writes, n_articles, tree_scan, it, scan,
                   exit_status>>
    /\ UNCHANGED <<fmtVars, poolVars>>

\* lines 345-347
ReadListFails ==
    /\ ipc = "read"
    /\ DocumentIsEmpty(list_file)
    /\ exit_status' = "parse_failed"
    /\ ipc' = "exit"
    /\ UNCHANGED <<list_file, list_writes, n_articles, tree, tree_scan, it, scan>>
    /\ UNCHANGED <<fmtVars, poolVars>>

\* lines 350-357
PurgeCards ==
    /\ ipc = "purge"
    /\ tree' = PurgeBelow(tree)
    /\ tree_scan' = tree'
    /\ it' = 0
    /\ ipc' = "scan"
    /\ UNCHANGED <<list_file, list_writes, n_articles, scan, exit_status>>
    /\ UNCHANGED <<fmtVars, poolVars>>

\* lines 358-430: an element without the placeholder in its text, and without
\* it in its tail or without a parent (line 399: continue)
ScanSkip ==
    /\ ipc = "scan"
    /\ it < Len(PreOrder(tree))
    /\ ~HasPlaceholder(NextElement.text)
    /\ ~HasPlaceholder(NextElement.tail) \/ NextPath = <<>>
    /\ it' = it + 1
    /\ UNCHANGED <<list_file, list_writes, n_articles, tree, tree_scan, ipc, scan,
                   exit_status>>
    /\ UNCHANGED <<fmtVars, poolVars>>

\* lines 359-394
ScanFoundText ==
    /\ ipc = "scan"
    /\ it < Len(PreOrder(tree))
    /\ HasPlaceholder(NextElement.text)
    /\ tree' = ReplaceAt(tree, NextPath,
                         TextSplice(NextElement, CardFragments(n_articles)))
    /\ scan' = "FoundText"
    /\ ipc' = "write"
    /\ UNCHANGED <<list_file, list_writes, n_articles, tree_scan, it, exit_status>>
    /\ UNCHANGED <<fmtVars, poolVars>>

\* lines 395-430
ScanFoundTail ==
    /\ ipc = "scan"
    /\ it < Len(PreOrder(tree))
    /\ ~HasPlaceholder(NextElement.text)
    /\ HasPlaceholder(NextElement.tail)
    /\ NextPath # <<>>
    /\ LET parentPath == SubSeq(NextPath, 1, Len(NextPath) - 1)
           idx == NextPath[Len(NextPath)]
       IN  tree' = ReplaceAt(tree, parentPath,
                             TailSplice(NodeAt(tree, parentPath), idx,
                                        CardFragments(n_articles)))
    /\ scan' = "FoundTail"
    /\ ipc' = "write"
    /\ UNCHANGED <<list_file, list_writes, n_articles, tree_scan, it, exit_status>>
    /\ UNCHANGED <<fmtVars, poolVars>>

\* lines 432-434: the loop ended without a break
ScanExhausted ==
    /\ ipc = "scan"
    /\ it = Len(PreOrder(tree))
    /\ scan' = "Exhausted"
    /\ exit_status' = "placeholder_not_found"
    /\ ipc' = AfterNotFound
    /\ UNCHANGED <<list_file, list_writes, n_articles, tree, tree_scan, it>>
    /\ UNCHANGED <<fmtVars, poolVars>>

\* lines 437-454
WriteBack ==
    /\ ipc = "write"
    /\ list_file' = PrettyPrintHtml(Serialize(tree))
    /\ list_writes' = list_writes + 1
    /\ exit_status' = "updated"
    /\ ipc' = "exit"
    /\ UNCHANGED <<n_articles, tree, tree_scan, it, scan>>
    /\ UNCHANGED <<fmtVars, poolVars>>

\* lines 445-447: open() raising
WriteBackFails ==
    /\ ipc = "write"
    /\ exit_status' = "write_failed"
    /\ ipc' = "exit"
    /\ UNCHANGED <<list_file, list_writes, n_articles, tree, tree_scan, it, scan>>
    /\ UNCHANGED <<fmtVars, poolVars>>

(***************************************************************************)
(* The conversion batch: one process_file per submitted path               *)
(***************************************************************************)
\* lines 250-256: a worker of the pool takes a submitted call
StartTask(p) ==
    /\ tpc[p] = "queued"
    /\ Cardinality({q \in vinput_paths : tpc[q] \in Running}) < NumWorkers
    /\ tpc' = [tpc EXCEPT ![p] = "read"]
    /\ UNCHANGED <<vinput_paths, template_content, format_all, local_html, files,
                   reported, success_count, fail_count>>
    /\ UNCHANGED <<fmtVars, injVars>>

\* lines 135-152
ReadAndRender(p) ==
    /\ tpc[p] = "read"
    /\ local_html' = [local_html EXCEPT
                        ![p] = RawPage(template_content, InputContent(p))]
    /\ tpc' = [tpc EXCEPT ![p] = "write_raw"]
    /\ UNCHANGED <<vinput_paths, template_content, format_all, files,
                   reported, success_count, fail_count>>
    /\ UNCHANGED <<fmtVars, injVars>>

\* lines 169-170: the input cannot be read
ConvertRaises(p) ==
    /\ tpc[p] = "read"
    /\ tpc' = [tpc EXCEPT ![p] = "failed"]
    /\ UNCHANGED <<vinput_paths, template_content, format_all, local_html, files,
                   reported, success_count, fail_count>>
    /\ UNCHANGED <<fmtVars, injVars>>

\* lines 155-156, and lines 165-168 without format_all
WriteRaw(p) ==
    /\ tpc[p] = "write_raw"
    /\ files' = [files EXCEPT ![OutputPath(p)] = local_html[p]]
    /\ tpc' = [tpc EXCEPT ![p] = IF format_all THEN "read_back" ELSE "ok"]
    /\ UNCHANGED <<vinput_paths, template_content, format_all, local_html,
                   reported, success_count, fail_count>>
    /\ UNCHANGED <<fmtVars, injVars>>

\* lines 159-161
ReadBack(p) ==
    /\ tpc[p] = "read_back"
    /\ local_html' = [local_html EXCEPT
                        ![p] = PrettyPrintHtml(files[OutputPath(p)])]
    /\ tpc' = [tpc EXCEPT ![p] = "write_pretty"]
    /\ UNCHANGED <<vinput_paths, template_content, format_all, files,
                   reported, success_count, fail_count>>
    /\ UNCHANGED <<fmtVars, injVars>>

\* lines 162-164, 168
WritePretty(p) ==
    /\ tpc[p] = "write_pretty"
    /\ files' = [files EXCEPT ![OutputPath(p)] = local_html[p]]
    /\ tpc' = [tpc EXCEPT ![p] = "ok"]
    /\ UNCHANGED <<vinput_paths, template_content, format_all, local_html,
                   reported, success_count, fail_count>>
    /\ UNCHANGED <<fmtVars, injVars>>

\* lines 260-267: as_completed hands main a finished call
CollectResult(p) ==
    /\ tpc[p] \in {"ok", "failed"}
    /\ reported' = reported \cup {Result(tpc[p] = "ok", p)}
    /\ success_count' = IF tpc[p] = "ok" THEN success_count + 1 ELSE success_count
    /\ fail_count' = IF tpc[p] = "ok" THEN fail_count ELSE fail_count + 1
    /\ tpc' = [tpc EXCEPT ![p] = "collected"]
    /\ UNCHANGED <<vinput_paths, template_content, format_all, local_html, files>>
    /\ UNCHANGED <<fmtVars, injVars>>

(***************************************************************************)
(* Specifications                                                          *)
(***************************************************************************)
\* pretty_print_html on a document, and again on what it returned
Init ==
    /\ \E h \in FormatDocuments : EnterFormatter(h)
    /\ history = <<>>
    /\ InjectorIdle
    /\ PoolIdle

Next ==
    \/ SplitDoctype
    \/ ParseDocument
    \/ ParseDocumentRaises
    \/ IndentTree
    \/ AdjustPreCode
    \/ ExtractMarkup
    \/ SerializeAndReturn
    \/ PrimaryRaises
    \/ FragmentMode
    \/ FragmentModeRaises
    \/ Reapply

Spec == Init /\ [][Next]_vars

\* the primary path of pretty_print_html on documents with nested elements
InitMarkup ==
    /\ \E h \in MarkupDocuments : EnterFormatter(h)
    /\ history = <<>>
    /\ InjectorIdle
    /\ PoolIdle

NextMarkup ==
    \/ SplitDoctype
    \/ ParseDocument
    \/ IndentTree
    \/ AdjustPreCode
    \/ ExtractMarkup
    \/ SerializeAndReturn

SpecMarkup == InitMarkup /\ [][NextMarkup]_vars

\* the article list update of main, from the collection of the articles on
InitInject ==
    /\ FormatterIdle
    /\ PoolIdle
    /\ list_file \in ListDocuments
    /\ list_writes = 0
    /\ n_articles \in 0..MaxCards
    /\ tree = NoTree
    /\ tree_scan = NoTree
    /\ ipc = "collect"
    /\ it = 0
    /\ scan = "Scanning"
    /\ exit_status = "running"

NextInject ==
    \/ CollectArticles
    \/ NoArticles
    \/ ReadList
    \/ ReadListFails
    \/ PurgeCards
    \/ ScanSkip
    \/ ScanFoundText
    \/ ScanFoundTail
    \/ ScanExhausted
    \/ WriteBack
    \/ WriteBackFails

SpecInject == InitInject /\ [][NextInject]_vars

\* lines 340-447 as a unit, entered with any list of cards, the empty one too
InitSplice ==
    /\ FormatterIdle
    /\ PoolIdle
    /\ list_file \in ListDocuments
    /\ list_writes = 0
    /\ n_articles \in 0..MaxCards
    /\ tree = NoTree
    /\ tree_scan = NoTree
    /\ ipc = "read"
    /\ it = 0
    /\ scan = "Scanning"
    /\ exit_status = "running"

NextSplice ==
    \/ ReadList
    \/ ReadListFails
    \/ PurgeCards
    \/ ScanSkip
    \/ ScanFoundText
    \/ ScanFoundTail
    \/ ScanExhausted
    \/ WriteBack
    \/ WriteBackFails

SpecSplice == InitSplice /\ [][NextSplice]_vars


\* the conversion batch: every batch of distinct paths, with and without a
\* template, with and without formatting
InitPool ==
    /\ FormatterIdle
    /\ InjectorIdle
    /\ vinput_paths \in Batches
    /\ template_content \in Templates
    /\ format_all \in BOOLEAN
    /\ tpc = [p \in vinput_paths |-> "queued"]
    /\ local_html = [p \in vinput_paths |-> <<>>]
    /\ files = [o \in OutputPaths |-> <<>>]
    /\ reported = {}
    /\ success_count = 0
    /\ fail_count = 0

NextPool ==
    \/ \E p \in vinput_paths : StartTask(p)
    \/ \E p \in vinput_paths : ReadAndRender(p)
    \/ \E p \in vinput_paths : ConvertRaises(p)
    \/ \E p \in vinput_paths : WriteRaw(p)
    \/ \E p \in vinput_paths : ReadBack(p)
    \/ \E p \in vinput_paths : WritePretty(p)
    \/ \E p \in vinput_paths : CollectResult(p)

SpecPool == InitPool /\ [][NextPool]_vars
(***************************************************************************)
(* Claims about the formatter                                              *)
(***************************************************************************)
\* process_markup(root) has just returned
Marked == pc = "serialize"

\* C1: pretty_print_html always returns a string and never lets an exception
\* out: the primary result when the primary path completed, else the
\* fragment-mode result of the original argument (not of the part after the
\* doctype), else the argument itself; a stage is tried only after the one
\* before it raised.
C1_ResultByStage ==
    /\ pc \in {"start", "parse", "indent", "adjust", "markup", "serialize",
               "fallback", "done"}
    /\ fragment_tried => primary_raised
    /\ fragment_raised => fragment_tried
    /\ pc = "done" =>
        result = IF ~primary_raised THEN PrimaryResult(html_str)
                 ELSE IF ~fragment_raised THEN FragmentResult(html_str)
                 ELSE html_str

\* the fallback has run on an argument whose part before the doctype matters
C1_Witness ==
    /\ pc = "done"
    /\ primary_raised /\ fragment_tried /\ ~fragment_raised
    /\ before_doctype # <<>>
    /\ result = FragmentResult(html_str)
    /\ result # FragmentResult(after_doctype)

\* C2: formatting is idempotent: formatting the formatted string of a
\* well-formed argument (both calls complete the primary path) returns it
\* unchanged, also when a text holds one or several annotation tokens.
C2_Idempotent ==
    (/\ Len(history) >= 2
     /\ history[1].path = "primary"
     /\ history[2].path = "primary")
    => history[2].result = history[1].result

\* C3: inside a pre or code element nothing is interpreted: after the
\* extractor pass every node that is a pre/code element or lies below one has
\* its text and its class as before, and every node below one has its tail
\* as before.
C3_VerbatimSubtree ==
    Marked =>
        \A p \in PathsOf(marked_in) :
            /\ InVerbatim(marked_in, p) =>
                /\ NodeAt(root, p).text = NodeAt(marked_in, p).text
                /\ NodeAt(root, p).class = NodeAt(marked_in, p).class
            /\ BelowVerbatim(marked_in, p) =>
                NodeAt(root, p).tail = NodeAt(marked_in, p).tail

\* C4: outside the verbatim regions one extractor pass removes exactly the
\* first token of every text and of every tail, leaving all other characters
\* (later tokens too) in place, and the owning element (the node for its
\* text, the parent for a tail) gets the token's trimmed non-empty classes
\* appended to its class; a token without classes is removed and leaves the
\* class alone.
C4_FirstTokenOnly ==
    Marked =>
        \A p \in PathsOf(marked_in) :
            LET before == NodeAt(marked_in, p)
                after == NodeAt(root, p)
            IN  /\ ~InVerbatim(marked_in, p) =>
                    /\ after.text = WithoutFirstToken(before.text)
                    /\ after.class = ExpectedClass(before)
                /\ (p # <<>> /\ ~BelowVerbatim(marked_in, p)) =>
                    after.tail = WithoutFirstToken(before.tail)

\* an element with a class already, outside the verbatim regions, whose text
\* held two tokens: one is gone, one is left, and the class has grown
C4_Witness ==
    /\ Marked
    /\ \E p \in PathsOf(marked_in) :
        /\ ~InVerbatim(marked_in, p)
        /\ NodeAt(marked_in, p).class # <<>>
        /\ Cardinality(TokenSpans(NodeAt(marked_in, p).text)) >= 2
        /\ HoldsToken(NodeAt(root, p).text)
        /\ NodeAt(root, p).text # NodeAt(marked_in, p).text
        /\ NodeAt(root, p).class # NodeAt(marked_in, p).class

(***************************************************************************)
(* Claims about the card list injector                                     *)
(***************************************************************************)
\* the document as read in document order: a node's start tag, its text, its
\* children, its end tag, its tail
BeforeScan == Serialize(tree_scan)
AfterSplice == Serialize(tree)

\* the placeholder token stands at s[k..k+7]
PlaceholderAt(s, k) ==
    /\ k + Len(PlaceholderToken) - 1 <= Len(s)
    /\ \A j \in 1..Len(PlaceholderToken) :
            s[k + j - 1].k = "ch" /\ s[k + j - 1].c = PlaceholderToken[j]

Occurrences(s) == {k \in 1..Len(s) : PlaceholderAt(s, k)}

FirstOccurrence(s) == CHOOSE k \in Occurrences(s) : \A o \in Occurrences(s) : k <= o

\* s with the placeholder at k replaced by mid
Replaced(s, k, mid) ==
    SubSeq(s, 1, k - 1) \o mid \o SubSeq(s, k + Len(PlaceholderToken), Len(s))

\* cards i..n in document order, a newline between two cards
RECURSIVE CardStream(_, _)
CardStream(i, n) ==
    IF i > n THEN <<>>
    ELSE <<OpenTag("div", CardWord), OpenTag("a", <<>>), Ch(Titles[i]),
           CloseTag("a"), CloseTag("div")>>
            \o (IF i < n THEN <<Ch(Nl)>> ELSE <<>>)
            \o CardStream(i + 1, n)

\* a class attribute with card among its white-space separated tokens
HasCardToken(class) ==
    \E i \in 1..Len(class) :
        /\ IsPrefixAt(class, CardWord, i)
        /\ i = 1 \/ IsSpace(class[i - 1])
        /\ i + Len(CardWord) - 1 = Len(class) \/ IsSpace(class[i + Len(CardWord)])

\* a tree without the elements (of any tag) that have the class card
RECURSIVE WithoutStale(_)
RECURSIVE WithoutStaleKids(_)
WithoutStaleKids(kids) ==
    IF kids = <<>> THEN <<>>
    ELSE IF HasCardToken(Head(kids).class) THEN WithoutStaleKids(Tail(kids))
    ELSE <<WithoutStale(Head(kids))>> \o WithoutStaleKids(Tail(kids))

WithoutStale(node) == [node EXCEPT !.kids = WithoutStaleKids(node.kids)]

\* C5: with at least one card, the cards stand exactly where the consumed
\* placeholder stood: in document order the result is what preceded the
\* placeholder, the cards in input order, what followed the placeholder;
\* nothing else is lost, repeated or moved.
C5_CardsInPlace ==
    (ipc = "write" /\ n_articles >= 1) =>
        \E k \in Occurrences(BeforeScan) :
            AfterSplice = Replaced(BeforeScan, k, CardStream(1, n_articles))

\* the placeholder stood in the text of an element with a child, between two
\* other characters, and two cards or more were put in
C5_Witness ==
    /\ ipc = "write"
    /\ scan = "FoundText"
    /\ n_articles >= 2
    /\ \E p \in PathsOf(tree_scan) :
        /\ NodeAt(tree_scan, p).text = PlainPlaceholder
        /\ NodeAt(tree_scan, p).kids # <<>>
        /\ NodeAt(tree, p).text = <<"s">>
        /\ Len(NodeAt(tree, p).kids) = n_articles + Len(NodeAt(tree_scan, p).kids)

\* C6: one run consumes exactly one placeholder, the first in document order
\* (a node's text, then its children, then its tail); every other occurrence
\* stays where it is.
C6_FirstInDocumentOrder ==
    ipc = "write" =>
        AfterSplice = Replaced(BeforeScan, FirstOccurrence(BeforeScan),
                               CardStream(1, n_articles))

\* C7: the purge removes all and only the elements, of any tag and at any
\* depth, whose class has the token card: what is left is the parsed tree
\* without exactly those elements.
C7_PurgeExact ==
    ipc = "scan" => tree_scan = WithoutStale(DocumentFromString(list_file))

\* C8: the scan ends in exactly one of FoundText, FoundTail and Exhausted; a
\* tree without the placeholder ends it Exhausted; Exhausted reports the
\* failure and leaves the file on disk unwritten, with the purged tree in
\* memory; the file is written only after a Found state.
C8_ScanOutcome ==
    /\ scan \in {"Scanning", "FoundText", "FoundTail", "Exhausted"}
    /\ ipc \in {"collect", "read", "purge", "scan"} => scan = "Scanning"
    /\ ipc = "write" => scan \in {"FoundText", "FoundTail"}
    /\ scan = "Exhausted" =>
        /\ ipc = "exit"
        /\ exit_status = "placeholder_not_found"
        /\ list_writes = 0
        /\ tree = PurgeBelow(DocumentFromString(list_file))
    /\ list_writes > 0 => scan \in {"FoundText", "FoundTail"}
    /\ (/\ ipc = "exit"
        /\ exit_status \notin {"no_articles", "parse_failed"}
        /\ Occurrences(BeforeScan) = {})
       => scan = "Exhausted"

\* a run that ended Exhausted after the purge had changed the tree
C8_Witness ==
    /\ scan = "Exhausted"
    /\ ipc = "exit"
    /\ list_writes = 0
    /\ tree # DocumentFromString(list_file)

BatchDone == \A p \in vinput_paths : tpc[p] = "collected"

\* the page process_file makes of one input when it runs alone
Conversion(p) ==
    LET raw == RawPage(template_content, InputContent(p))
    IN  IF format_all THEN PrettyPrintHtml(raw) ELSE raw

\* C10: under every interleaving each submitted input yields exactly one
\* result, carrying its own path; the two counts add up to the number of
\* inputs; and once the pool has finished, the file at the output path of a
\* successful input holds the conversion of that input, not of another one.
C10_Attributable ==
    /\ \A r \in reported : r.path \in vinput_paths /\ tpc[r.path] = "collected"
    /\ \A p \in vinput_paths :
            Cardinality({r \in reported : r.path = p})
                = IF tpc[p] = "collected" THEN 1 ELSE 0
    /\ success_count + fail_count = Cardinality(reported)
    /\ BatchDone =>
        /\ success_count + fail_count = Cardinality(vinput_paths)
        /\ \A r \in reported : r.success => files[r.out_path] = Conversion(r.path)

====
